---- MODULE Spec2Model ----
(***************************************************************************)
(* State machine of the simplelog service engine: the caller API           *)
(* (Startup, Shutdown, InitLog, SwitchLog, SetPrefix, Log), the control    *)
(* goroutine (control.run), its start/stop waiter goroutines and the log    *)
(* service goroutine (simpleLogService.run) with its file destination.      *)
(* Unbuffered Go channels are rendezvous: one action moves the sender and   *)
(* the receiver together.  A panic in any goroutine ends the process.       *)
(***************************************************************************)
EXTENDS Integers, Sequences, FiniteSets, TLC

\* ------------------------------------------------------------------ bounds
NumThreads == 2      \* caller goroutines
MaxCalls == 4        \* API calls issued in one run, all callers together
MaxBuf == 1          \* largest bufferSize handed to Startup

\* --------------------------------------------------------- program constants
STDOUT == 0
FILE == 1
MULTI == 2

start == 0
stop == 1
initlog == 2
switchlog == 3
setprefix == 4

stopped == 1
running == 2

m001 == "log file not initialized"
m002 == "log service was already started"
m003 == "log service is not running"
m004 == "log service has not been started"
m006 == "log file already exists"
nilDeref == "invalid memory address or nil pointer dereference"
closeOfClosed == "close of closed channel"
renameError == "rename: no such file or directory"

\* ------------------------------------------------------------ input domains
Threads == 1..NumThreads
BufSizes == 1..MaxBuf
FileNames == {"a", "b"}
Dests == {STDOUT, FILE, MULTI}
\* Prefixes as strings of characters: a plain one, and one with a tagged region
Prefixes == {<<"p">>,
             <<"<", "D", "T", ">", "y", "y", "y", "y", "<", "D", "T", ">", ":">>}

VARIABLES
  totalState,   \* control.run: the state bitmask
  ctl,          \* control.run: position in its loop
  attribute,    \* s.attribute
  gen,          \* number of start actions handled; index of the current channels
  logData,      \* s.logData of every generation: the buffered messages
  capOf,        \* capacity of s.logData of every generation
  sendq,        \* callers blocked in a send on s.logData of every generation
  stopClosed,   \* c.stopService of every generation: closed or not
  actors,       \* the goroutines running simpleLogService.run
  waiters,      \* the goroutines spawned by control for start and stop
  pc,           \* position of every caller
  op,           \* the call every caller is executing
  calls,        \* API calls issued so far
  accepted,     \* destination of every message enqueued so far; its index is the message's id
  stdout,       \* lines written to os.Stdout
  files,        \* directory: file name -> inode (0: no such file)
  disk,         \* inode -> lines of the file
  fileDesc,     \* fileLogger.fileDesc
  fileWriter,   \* fileLogger.fileWriter (with fileLogInstance)
  prefix,       \* stdoutLogger.prefix / fileLogger.prefix
  carried,      \* history: for each line formatted for stdout and for the
                \* file, in the order of the writes, the message and the prefix
  switched,     \* history: the file the last switchlog opened and the messages
                \* enqueued until then; reset when initlog opens a file
  aborted,      \* "" or the panic that ended the process
  now,          \* the clock reading of time.Now(), in clock quanta
  watch,        \* the watchdog goroutine: position, t, timeDiff_ns
  serviceRunning,          \* watchdog.serviceRunning, a channel of capacity 1
  serviceRunningResponse,  \* watchdog.serviceRunningResponse, capacity 1
  beat,         \* the service goroutine that sends heartbeats: position, t,
                \* next tick of its ticker
  life,         \* the thread that starts and stops that service goroutine
  query,        \* the threads that ask the watchdog: position, and history
  prefixCall    \* a call of preprocessPrefix: argument, result, returned

svcVars == <<totalState, ctl, attribute, gen, logData, capOf, sendq, stopClosed,
             actors, waiters, pc, op, calls, accepted, stdout, files, disk,
             fileDesc, fileWriter, prefix, carried, switched, aborted>>

wdVars == <<now, watch, serviceRunning, serviceRunningResponse, beat, life,
            query>>

ppVars == <<prefixCall>>

vars == <<svcVars, wdVars, ppVars>>

chanVars == <<gen, logData, capOf, sendq, stopClosed>>
fileVars == <<stdout, files, disk, fileDesc, fileWriter, carried>>

\* ----------------------------------------------------------------- helpers
Bit(n, k) == (n \div k) % 2

\* totalState&state == state, for a single-bit state
HasState(total, state) == Bit(total, state) = 1

\* totalState |= state, for a single-bit state
OrState(total, state) == IF HasState(total, state) THEN total ELSE total + state

ArchiveName(name) == name \o "_ts"
AllNames == FileNames \cup {ArchiveName(n) : n \in FileNames}

NoDesc == [name |-> "", ino |-> 0]
NoWriter == [ino |-> 0, buf |-> <<>>]
NoMsg == [id |-> 0, dest |-> STDOUT]
NoOp == [name |-> "", buf |-> 0, fname |-> "", flag |-> FALSE, dest |-> STDOUT,
         pfx |-> <<>>, mark |-> 0, applied |-> FALSE]
NoSwitch == [ino |-> 0, mark |-> 0]
CtlSelect == [pc |-> "select", val |-> FALSE, g |-> 0, task |-> 0, data |-> "", by |-> 0]

Range(seq) == {seq[k] : k \in 1..Len(seq)}

\* ------------------------------------------------------------ prefix strings
\* A string is a sequence of characters.
dateTimeTag == <<"<", "D", "T", ">">>

\* pat occurs in str at position i
HasAt(str, pat, i) ==
  /\ i >= 1
  /\ i + Len(pat) - 1 <= Len(str)
  /\ SubSeq(str, i, i + Len(pat) - 1) = pat

\* strings.Index from position from on: the first position of pat, 0 when absent
IndexFrom(str, pat, from) ==
  LET hits == {i \in from..Len(str) : HasAt(str, pat, i)} IN
  IF hits = {} THEN 0 ELSE CHOOSE i \in hits : \A j \in hits : i <= j

\* strings.Index
Index(str, pat) == IndexFrom(str, pat, 1)

\* strings.LastIndex
LastIndex(str, pat) ==
  LET hits == {i \in 1..Len(str) : HasAt(str, pat, i)} IN
  IF hits = {} THEN 0 ELSE CHOOSE i \in hits : \A j \in hits : i >= j

\* strings.Count: the occurrences of pat that do not overlap, from position from
RECURSIVE CountFrom(_, _, _)
CountFrom(str, pat, from) ==
  LET i == IndexFrom(str, pat, from) IN
  IF i = 0 THEN 0 ELSE 1 + CountFrom(str, pat, i + Len(pat))

\* strings.Trim(str, cutset): the characters of cutset leave both ends
RECURSIVE TrimLeft(_, _)
TrimLeft(str, cutset) ==
  IF str # <<>> /\ Head(str) \in cutset THEN TrimLeft(Tail(str), cutset) ELSE str

RECURSIVE TrimRight(_, _)
TrimRight(str, cutset) ==
  IF str # <<>> /\ str[Len(str)] \in cutset
  THEN TrimRight(SubSeq(str, 1, Len(str) - 1), cutset)
  ELSE str

Trim(str, cutset) == TrimRight(TrimLeft(str, cutset), cutset)

\* dateTimeFilter.FindAllString: the matches of <DT>.*?<DT>, leftmost and
\* shortest, one after the other
RECURSIVE dateTimeFilter(_, _)
dateTimeFilter(str, from) ==
  LET i == IndexFrom(str, dateTimeTag, from)
      j == IndexFrom(str, dateTimeTag, i + Len(dateTimeTag))
  IN IF i = 0 \/ j = 0 THEN <<>>
     ELSE <<SubSeq(str, i, j + Len(dateTimeTag) - 1)>>
            \o dateTimeFilter(str, j + Len(dateTimeTag))

\* The time symbols in the order of the alternatives of the symbol pattern,
\* each with its reference time
timeSymbolToReferenceTime ==
  << [s |-> <<"d", "d">>, v |-> <<"0", "2">>],
     [s |-> <<"m", "m">>, v |-> <<"0", "1">>],
     [s |-> <<"y", "y", "y", "y">>, v |-> <<"2", "0", "0", "6">>],
     [s |-> <<"H", "H">>, v |-> <<"1", "5">>],
     [s |-> <<"M", "I">>, v |-> <<"0", "4">>],
     [s |-> <<"S", "S">>, v |-> <<"0", "5">>],
     [s |-> <<"F", "F", "F", "F", "F", "F">>,
      v |-> <<"0", "0", "0", "0", "0", "0">>] >>

\* symbolFilter.FindAllString and the translation of each match: at every
\* position the first alternative that matches, a single character at last
RECURSIVE translate(_)
translate(str) ==
  LET ks == {k \in 1..Len(timeSymbolToReferenceTime) :
               HasAt(str, timeSymbolToReferenceTime[k].s, 1)}
      k == CHOOSE x \in ks : \A y \in ks : x <= y
  IN IF str = <<>> THEN <<>>
     ELSE IF ks = {} THEN <<Head(str)>> \o translate(Tail(str))
     ELSE timeSymbolToReferenceTime[k].v
            \o translate(SubSeq(str, Len(timeSymbolToReferenceTime[k].s) + 1,
                                Len(str)))

\* The value of preprocessPrefix when the slice expression panics
sliceBoundsPanic == <<"panic: slice bounds out of range">>

\* The loop of preprocessPrefix over the partitions: newPrefix, with the
\* text before each partition found by strings.Index from the start of
\* prefix; prefix[start:stop] panics when start is beyond stop
RECURSIVE overPartitions(_, _, _, _)
overPartitions(pfx, partitions, startIdx, newPrefix) ==
  IF partitions = <<>> THEN newPrefix
  ELSE LET element == Head(partitions)
           stopIdx == Index(pfx, element)
       IN IF startIdx > stopIdx THEN sliceBoundsPanic
          ELSE overPartitions(pfx, Tail(partitions), stopIdx + Len(element),
                              newPrefix \o SubSeq(pfx, startIdx, stopIdx - 1)
                                \o translate(Trim(element, Range(dateTimeTag))))

\* preprocessPrefix: the time symbols of the tagged regions become reference
\* time, the tags go, the rest stays
preprocessPrefix(pfx) ==
  IF Index(pfx, dateTimeTag) = 0 THEN pfx
  ELSE IF CountFrom(pfx, dateTimeTag, 1) % 2 # 0 THEN pfx
  ELSE LET newPrefix == overPartitions(pfx, dateTimeFilter(pfx, 1), 1, <<>>)
       IN IF newPrefix = sliceBoundsPanic THEN sliceBoundsPanic
          ELSE IF Len(newPrefix) > 0
          THEN newPrefix \o SubSeq(pfx,
                                   LastIndex(pfx, dateTimeTag) + Len(dateTimeTag),
                                   Len(pfx))
          ELSE pfx

\* ---------------------------------------------------------------- watchdog
\* Time is counted in clock quanta: two readings of time.Now() may return the
\* same value. heartBeatInterval (time.Second) is scaled to two quanta.
heartBeatInterval == 2
latency_factor == 2
max_service_response_delay == latency_factor * heartBeatInterval
\* time.Hour, by which the service goroutine back-dates its last heartbeat
Hour == 3600 * heartBeatInterval

NumQueriers == 2
Queriers == 1..NumQueriers
MaxTime == 5
MaxStarts == 2

\* watchdog.init and the first lines of watchdog.run: both channels empty,
\* t the reading at the start of the goroutine, timeDiff_ns zero. History:
\* watch.recorded, a heartbeat has been received; life.fresh, start has
\* returned and the clock has not advanced since; query[q].case, "started"
\* when the query was issued while life.fresh and that still holds, "stopped"
\* when it was issued with the service stopped and no start was called since.
InitWatchdog ==
  /\ now = 0
  /\ watch = [pc |-> "select", t |-> 0, timeDiff_ns |-> 0, ans |-> FALSE,
              recorded |-> FALSE]
  /\ serviceRunning = 0
  /\ serviceRunningResponse = <<>>
  /\ beat = [pc |-> "none", t |-> 0, next |-> 0]
  /\ life = [pc |-> "stopped", n |-> 0, fresh |-> FALSE]
  /\ query = [q \in Queriers |-> [pc |-> "idle", case |-> "", ans |-> FALSE]]

\* The service and its controller before the first call
InitService ==
  /\ totalState = 0
  /\ ctl = CtlSelect
  /\ attribute = [logbuffer |-> 0, logfilename |-> "", logarchive |-> FALSE,
                  appendlog |-> FALSE]
  /\ gen = 0
  /\ logData = <<>>
  /\ capOf = <<>>
  /\ sendq = <<>>
  /\ stopClosed = <<>>
  /\ actors = <<>>
  /\ waiters = <<>>
  /\ pc = [t \in Threads |-> "idle"]
  /\ op = [t \in Threads |-> NoOp]
  /\ calls = 0
  /\ accepted = <<>>
  /\ stdout = <<>>
  /\ files = [n \in AllNames |-> 0]
  /\ disk = <<>>
  /\ fileDesc = NoDesc
  /\ fileWriter = NoWriter
  /\ prefix = [stdoutLogger |-> <<>>, fileLogger |-> <<>>]
  /\ carried = [stdout |-> <<>>, file |-> <<>>]
  /\ switched = NoSwitch
  /\ aborted = ""

\* No call of preprocessPrefix on its own is under way
NoPrefixCall == [arg |-> <<>>, result |-> <<>>, returned |-> FALSE]

Init ==
  /\ InitWatchdog
  /\ InitService
  /\ prefixCall = NoPrefixCall

\* ------------------------------------------------------- file destination
\* The destination state a write or a config task works on, as one record.
FS == [stdout |-> stdout, files |-> files, disk |-> disk, fileDesc |-> fileDesc,
       fileWriter |-> fileWriter, carried |-> carried, err |-> ""]

\* bufio.Writer.Flush: the buffered lines go to the file the writer wraps
FlushWriter(fs) ==
  IF fs.fileWriter.buf = <<>> THEN fs
  ELSE [fs EXCEPT !.disk[fs.fileWriter.ino] = @ \o fs.fileWriter.buf,
                  !.fileWriter.buf = <<>>]

\* logger.write: the line of message m as it is formatted with a prefix
Line(m, pfx) == [id |-> m.id, pfx |-> pfx]

FileWriteSkipping(fs, m) ==
  IF fs.fileWriter = NoWriter /\ fs.fileDesc = NoDesc THEN fs
  ELSE IF fs.fileWriter = NoWriter
  THEN [fs EXCEPT !.fileWriter = [ino |-> fs.fileDesc.ino, buf |-> <<m.id>>],
                  !.disk[fs.fileDesc.ino] = Append(@, 0),
                  !.carried.file = Append(@, Line(m, prefix.fileLogger))]
  ELSE [fs EXCEPT !.fileWriter.buf = Append(@, m.id),
                  !.carried.file = Append(@, Line(m, prefix.fileLogger))]

\* A file logger that formats its line with the prefix of the stdout logger
FileWriteStdoutPrefix(fs, m) ==
  IF fs.fileWriter = NoWriter
  THEN IF fs.fileDesc = NoDesc
       THEN [fs EXCEPT !.err = m001]
       ELSE [fs EXCEPT !.fileWriter = [ino |-> fs.fileDesc.ino, buf |-> <<m.id>>],
                       !.disk[fs.fileDesc.ino] = Append(@, 0),
                       !.carried.file = Append(@, Line(m, prefix.stdoutLogger))]
  ELSE [fs EXCEPT !.fileWriter.buf = Append(@, m.id),
                  !.carried.file = Append(@, Line(m, prefix.stdoutLogger))]

\* fileLogger.instance followed by logger.write on the file logger
FileWrite(fs, m) ==
  IF fs.fileWriter = NoWriter
  THEN IF fs.fileDesc = NoDesc
       THEN [fs EXCEPT !.err = m001]
       ELSE [fs EXCEPT !.fileWriter = [ino |-> fs.fileDesc.ino, buf |-> <<m.id>>],
                       !.disk[fs.fileDesc.ino] = Append(@, 0),
                       !.carried.file = Append(@, Line(m, prefix.fileLogger))]
  ELSE [fs EXCEPT !.fileWriter.buf = Append(@, m.id),
                  !.carried.file = Append(@, Line(m, prefix.fileLogger))]

\* A stdout logger that formats its line with the prefix of the file logger
StdoutWriteFilePrefix(fs, m) ==
  [fs EXCEPT !.stdout = Append(@, m.id),
             !.carried.stdout = Append(@, Line(m, prefix.fileLogger))]

\* stdoutLogger.instance followed by logger.write on the stdout logger
StdoutWrite(fs, m) ==
  [fs EXCEPT !.stdout = Append(@, m.id),
             !.carried.stdout = Append(@, Line(m, prefix.stdoutLogger))]

writeMessage(fs, m) ==
  IF m.dest = STDOUT THEN StdoutWrite(fs, m)
  ELSE IF m.dest = FILE THEN FileWrite(fs, m)
  ELSE FileWrite(StdoutWrite(fs, m), m)

RECURSIVE WriteAll(_, _)
WriteAll(fs, msgs) ==
  IF msgs = <<>> \/ fs.err # "" THEN fs
  ELSE WriteAll(writeMessage(fs, Head(msgs)), Tail(msgs))

\* An open that writes the blank-line marker into the file it opens
setupLogFileMarking(fs, logName) ==
  IF fs.files[logName] = 0
  THEN [fs EXCEPT !.disk = Append(@, <<0>>),
                  !.files[logName] = Len(fs.disk) + 1,
                  !.fileDesc = [name |-> logName, ino |-> Len(fs.disk) + 1]]
  ELSE [fs EXCEPT !.disk[fs.files[logName]] = Append(@, 0),
                  !.fileDesc = [name |-> logName, ino |-> fs.files[logName]]]

\* fileLogger.setupLogFile: os.OpenFile(logName, O_APPEND|O_CREATE|O_WRONLY)
setupLogFile(fs, logName) ==
  IF fs.files[logName] = 0
  THEN [fs EXCEPT !.disk = Append(@, <<>>),
                  !.files[logName] = Len(fs.disk) + 1,
                  !.fileDesc = [name |-> logName, ino |-> Len(fs.disk) + 1]]
  ELSE [fs EXCEPT !.fileDesc = [name |-> logName, ino |-> fs.files[logName]]]

\* fileLogger.releaseFileLogger(false)
releaseFileLogger(fs) ==
  IF fs.fileDesc = NoDesc THEN fs
  ELSE [FlushWriter(fs) EXCEPT !.fileWriter = NoWriter, !.fileDesc = NoDesc]

changeLogFileRemoving(fs, newLogName) ==
  setupLogFile([releaseFileLogger(fs) EXCEPT !.files[fs.fileDesc.name] = 0], newLogName)

\* fileLogger.changeLogFile
changeLogFile(fs, newLogName) == setupLogFile(releaseFileLogger(fs), newLogName)

\* closeLogFile of the stop waiter: flush, close and forget the file destination
closeLogFile(fs) ==
  [FlushWriter(fs) EXCEPT !.fileWriter = NoWriter, !.fileDesc = NoDesc]

\* fileLogger.archiveLogFile: os.Rename(name, name_<timestamp>)
archiveLogFile(fs, logFileName) ==
  IF fs.files[logFileName] = 0 THEN [fs EXCEPT !.err = renameError]
  ELSE [fs EXCEPT !.files[ArchiveName(logFileName)] = fs.files[logFileName],
                  !.files[logFileName] = 0]

\* The destination variables take the values of the record; a failed step panics.
SetFS(fs) ==
  /\ stdout' = fs.stdout
  /\ files' = fs.files
  /\ disk' = fs.disk
  /\ fileDesc' = fs.fileDesc
  /\ fileWriter' = fs.fileWriter
  /\ carried' = fs.carried
  /\ aborted' = fs.err

\* ------------------------------------------------------------------ mailbox
\* messages enqueued so far; the next message gets the id nmsg + 1
nmsg == Len(accepted)

\* The message a caller blocked in its send hands over
MsgOf(t, id) == [id |-> id, dest |-> op[t].dest]

\* flush(): everything the loop receives from s.logData until len() is 0; each
\* receive from a full channel moves the first blocked sender's message in.
FlushList(g) ==
  logData[g] \o [k \in 1..Len(sendq[g]) |-> MsgOf(sendq[g][k], nmsg + k)]

\* The mailbox, its senders and the callers after flush() has drained channel g;
\* ops is the callers' calls but for the senders that return
Drained(g, ops) ==
  /\ logData' = [logData EXCEPT ![g] = <<>>]
  /\ accepted' = accepted \o [k \in 1..Len(sendq[g]) |-> op[sendq[g][k]].dest]
  /\ pc' = [t \in Threads |->
              IF \E k \in 1..Len(sendq[g]) : sendq[g][k] = t THEN "idle" ELSE pc[t]]
  /\ op' = [t \in Threads |->
              IF \E k \in 1..Len(sendq[g]) : sendq[g][k] = t THEN NoOp ELSE ops[t]]
  /\ sendq' = [sendq EXCEPT ![g] = <<>>]

\* ------------------------------------------------------------------ callers
Panic(t, msg) ==
  /\ pc' = [pc EXCEPT ![t] = "panicked"]
  /\ aborted' = msg
  /\ UNCHANGED op

Return(t) ==
  /\ pc' = [pc EXCEPT ![t] = "idle"]
  /\ op' = [op EXCEPT ![t] = NoOp]

\* c.checkState(running), first half: the request reaches control.run
Call(t, o) ==
  /\ aborted = ""
  /\ pc[t] = "idle"
  /\ calls < MaxCalls
  /\ ctl.pc = "select"
  /\ calls' = calls + 1
  /\ op' = [op EXCEPT ![t] = o]
  /\ pc' = [pc EXCEPT ![t] = "waitCheck"]
  /\ ctl' = [CtlSelect EXCEPT !.pc = "respCheck", !.val = HasState(totalState, running)]
  /\ UNCHANGED <<totalState, attribute, chanVars, actors, waiters, accepted, fileVars,
                 prefix, switched, aborted, wdVars, ppVars>>

CallStartup(t) ==
  \E b \in BufSizes : Call(t, [NoOp EXCEPT !.name = "Startup", !.buf = b])

CallShutdown(t) ==
  \E a \in BOOLEAN : Call(t, [NoOp EXCEPT !.name = "Shutdown", !.flag = a])

CallInitLog(t) ==
  \E n \in FileNames, a \in BOOLEAN :
    Call(t, [NoOp EXCEPT !.name = "InitLog", !.fname = n, !.flag = a])

CallSwitchLog(t) ==
  \E n \in FileNames :
    Call(t, [NoOp EXCEPT !.name = "SwitchLog", !.fname = n, !.mark = nmsg])

CallSetPrefix(t) ==
  \E d \in {STDOUT, FILE}, p \in Prefixes :
    Call(t, [NoOp EXCEPT !.name = "SetPrefix", !.dest = d, !.pfx = p,
                         !.mark = nmsg])

CallLog(t) ==
  \E d \in Dests : Call(t, [NoOp EXCEPT !.name = "Log", !.dest = d])

\* The usage error of an API function whose state check failed
UsageError(name) ==
  IF name = "Startup" THEN m002
  ELSE IF name = "Shutdown" THEN m003
  ELSE m004

\* Where an API function goes on after a state check that let it pass
AfterCheck(name) ==
  IF name = "Log" THEN "sendLog"
  ELSE IF name = "SetPrefix" THEN "sendPrefix"
  ELSE "setAttr"

PassesStartupAlways(name, isRunning) == IF name = "Startup" THEN TRUE ELSE isRunning

PassesUnchecked(name, isRunning) == IF name = "Startup" THEN ~isRunning ELSE TRUE

\* Startup passes when the service is not running, every other call when it is
Passes(name, isRunning) == IF name = "Startup" THEN ~isRunning ELSE isRunning

\* A caller that reads the reply to a check of the state stopped
CheckReturnStopped(t) ==
  /\ aborted = ""
  /\ pc[t] = "waitCheck"
  /\ ctl.pc = "respCheck"
  /\ ctl' = CtlSelect
  /\ IF Passes(op[t].name, HasState(totalState, stopped))
     THEN /\ pc' = [pc EXCEPT ![t] = AfterCheck(op[t].name)]
          /\ UNCHANGED <<op, aborted>>
     ELSE Panic(t, UsageError(op[t].name))
  /\ UNCHANGED <<totalState, attribute, chanVars, actors, waiters, calls, accepted,
                 fileVars, prefix, switched, wdVars, ppVars>>

\* c.checkState(running), second half, and the branch of the API function on it
CheckReturn(t) ==
  /\ aborted = ""
  /\ pc[t] = "waitCheck"
  /\ ctl.pc = "respCheck"
  /\ ctl' = CtlSelect
  /\ IF Passes(op[t].name, ctl.val)
     THEN /\ pc' = [pc EXCEPT ![t] = AfterCheck(op[t].name)]
          /\ UNCHANGED <<op, aborted>>
     ELSE Panic(t, UsageError(op[t].name))
  /\ UNCHANGED <<totalState, attribute, chanVars, actors, waiters, calls, accepted,
                 fileVars, prefix, switched, wdVars, ppVars>>

\* s.setAttribut(...) of Startup, Shutdown, InitLog and SwitchLog
SetAttribut(t) ==
  /\ aborted = ""
  /\ pc[t] = "setAttr"
  /\ attribute' =
       IF op[t].name = "Startup" THEN [attribute EXCEPT !.logbuffer = op[t].buf]
       ELSE IF op[t].name = "Shutdown" THEN [attribute EXCEPT !.logarchive = op[t].flag]
       ELSE IF op[t].name = "InitLog"
            THEN [attribute EXCEPT !.appendlog = op[t].flag, !.logfilename = op[t].fname]
       ELSE [attribute EXCEPT !.logfilename = op[t].fname]
  /\ pc' = [pc EXCEPT ![t] = "sendAction"]
  /\ UNCHANGED <<totalState, ctl, chanVars, actors, waiters, op, calls, accepted,
                 fileVars, prefix, switched, aborted, wdVars, ppVars>>

\* Two callers inside setAttribut at once: the runtime may end the process
MapRace ==
  /\ aborted = ""
  /\ \E t1, t2 \in Threads : t1 # t2 /\ pc[t1] = "setAttr" /\ pc[t2] = "setAttr"
  /\ aborted' = "concurrent map writes"
  /\ UNCHANGED <<totalState, ctl, attribute, chanVars, actors, waiters, pc, op,
                 calls, accepted, fileVars, prefix, switched, wdVars, ppVars>>

MailboxFullOffByOne(g) == Len(logData[g]) > capOf[g]

\* The buffer of s.logData, made with the buffer size given to Startup, has no room
MailboxFull(g) == Len(logData[g]) >= capOf[g]

\* s.logData <- logMessage{...}: into the buffer, or onto the channel's send queue
LogSend(t) ==
  /\ aborted = ""
  /\ pc[t] = "sendLog"
  /\ IF ~MailboxFull(gen)
     THEN /\ logData' = [logData EXCEPT ![gen] = Append(@, MsgOf(t, nmsg + 1))]
          /\ accepted' = Append(accepted, op[t].dest)
          /\ Return(t)
          /\ UNCHANGED sendq
     ELSE /\ sendq' = [sendq EXCEPT ![gen] = Append(@, t)]
          /\ pc' = [pc EXCEPT ![t] = "blocked"]
          /\ UNCHANGED <<logData, accepted, op>>
  /\ UNCHANGED <<totalState, ctl, attribute, gen, capOf, stopClosed, actors, waiters,
                 calls, fileVars, prefix, switched, aborted, wdVars, ppVars>>

\* ------------------------------------------------------------------ control
Remove(seq, i) == SubSeq(seq, 1, i - 1) \o SubSeq(seq, i + 1, Len(seq))

NewActor == [pc |-> "setRunning", g |-> 0, msg |-> NoMsg]
NewWaiter(kind, archive, t) ==
  [kind |-> kind, pc |-> "check", archive |-> archive, by |-> t, g |-> gen]

\* control.run, case start: new channels, the service goroutine and the waiter
CtlStart(t) ==
  /\ aborted = ""
  /\ pc[t] = "sendAction" /\ op[t].name = "Startup"
  /\ ctl.pc = "select"
  /\ gen' = gen + 1
  /\ logData' = Append(logData, <<>>)
  /\ capOf' = Append(capOf, attribute.logbuffer)
  /\ sendq' = Append(sendq, <<>>)
  /\ stopClosed' = Append(stopClosed, FALSE)
  /\ totalState' = IF totalState = stopped THEN 0 ELSE totalState
  /\ actors' = Append(actors, NewActor)
  /\ waiters' = Append(waiters, NewWaiter(start, FALSE, t))
  /\ pc' = [pc EXCEPT ![t] = "waitAck"]
  /\ op' = [op EXCEPT ![t].applied = HasState(totalState', running)]
  /\ UNCHANGED <<ctl, attribute, calls, accepted, fileVars, prefix, switched, aborted, wdVars, ppVars>>

\* control.run, case stop: close(c.stopService) and the waiter
CtlStop(t) ==
  /\ aborted = ""
  /\ pc[t] = "sendAction" /\ op[t].name = "Shutdown"
  /\ ctl.pc = "select"
  /\ pc' = [pc EXCEPT ![t] = "waitAck"]
  /\ IF stopClosed[gen]
     THEN /\ aborted' = closeOfClosed
          /\ UNCHANGED <<stopClosed, waiters>>
     ELSE /\ stopClosed' = [stopClosed EXCEPT ![gen] = TRUE]
          /\ waiters' = Append(waiters, NewWaiter(stop, attribute.logarchive, t))
          /\ UNCHANGED aborted
  /\ op' = [op EXCEPT ![t].mark = gen]
  /\ UNCHANGED <<totalState, ctl, attribute, gen, logData, capOf, sendq, actors,
                 calls, accepted, fileVars, prefix, switched, wdVars, ppVars>>

\* control.run, case initlog: remove the old log unless appending, then hand the
\* config message to the service
CtlInitlog(t) ==
  /\ aborted = ""
  /\ pc[t] = "sendAction" /\ op[t].name = "InitLog"
  /\ ctl.pc = "select"
  /\ pc' = [pc EXCEPT ![t] = "waitAck"]
  /\ files' = IF ~attribute.appendlog
              THEN [files EXCEPT ![attribute.logfilename] = 0]
              ELSE files
  /\ ctl' = [CtlSelect EXCEPT !.pc = "sendCfg", !.g = gen, !.task = initlog,
                              !.data = attribute.logfilename, !.by = t]
  /\ UNCHANGED <<totalState, attribute, chanVars, actors, waiters, op, calls, accepted,
                 stdout, disk, fileDesc, fileWriter, carried, prefix, switched,
                 aborted, wdVars, ppVars>>

\* control.run, case switchlog: the new name must not exist
CtlSwitchlog(t) ==
  /\ aborted = ""
  /\ pc[t] = "sendAction" /\ op[t].name = "SwitchLog"
  /\ ctl.pc = "select"
  /\ pc' = [pc EXCEPT ![t] = "waitAck"]
  /\ IF files[attribute.logfilename] # 0
     THEN /\ aborted' = m006
          /\ UNCHANGED ctl
     ELSE /\ ctl' = [CtlSelect EXCEPT !.pc = "sendCfg", !.g = gen, !.task = switchlog,
                                      !.data = attribute.logfilename, !.by = t]
          /\ UNCHANGED aborted
  /\ UNCHANGED <<totalState, attribute, chanVars, actors, waiters, op, calls, accepted,
                 fileVars, prefix, switched, wdVars, ppVars>>

\* ------------------------------------------------------------------ waiters
\* c.checkState(...) of a waiter, first half
WaiterCheck(i) ==
  /\ aborted = ""
  /\ waiters[i].pc = "check"
  /\ ctl.pc = "select"
  /\ ctl' = [CtlSelect EXCEPT !.pc = "respCheck",
               !.val = HasState(totalState,
                                IF waiters[i].kind = start THEN running ELSE stopped)]
  /\ waiters' = [waiters EXCEPT ![i].pc = "waitCheck"]
  /\ UNCHANGED <<totalState, attribute, chanVars, actors, pc, op, calls, accepted,
                 fileVars, prefix, switched, aborted, wdVars, ppVars>>

\* c.checkState(...) of a waiter, second half: loop again or go on
WaiterCheckReturn(i) ==
  /\ aborted = ""
  /\ waiters[i].pc = "waitCheck"
  /\ ctl.pc = "respCheck"
  /\ ctl' = CtlSelect
  /\ waiters' = [waiters EXCEPT ![i].pc =
                   IF ~ctl.val THEN "check"
                   ELSE IF waiters[i].kind = start THEN "ack" ELSE "cleanup"]
  /\ UNCHANGED <<totalState, attribute, chanVars, actors, pc, op, calls, accepted,
                 fileVars, prefix, switched, aborted, wdVars, ppVars>>

\* The stop waiter after the service has stopped: s.fileDesc.Name(),
\* s.closeLogFile() and, when asked, s.archiveLogFile(logFileName)
WaiterCleanup(i) ==
  /\ aborted = ""
  /\ waiters[i].pc = "cleanup"
  /\ waiters' = [waiters EXCEPT ![i].pc = "ack"]
  /\ IF fileDesc = NoDesc
     THEN /\ aborted' = nilDeref
          /\ UNCHANGED fileVars
     ELSE SetFS(IF waiters[i].archive
                THEN archiveLogFile(closeLogFile(FS), fileDesc.name)
                ELSE closeLogFile(FS))
  /\ op' = [t \in Threads |->
              IF /\ t = waiters[i].by /\ op[t].name = "Shutdown"
                 /\ pc[t] = "waitAck" /\ op[t].mark = waiters[i].g
              THEN [op[t] EXCEPT !.applied = TRUE] ELSE op[t]]
  /\ UNCHANGED <<totalState, ctl, attribute, chanVars, actors, pc, calls, accepted,
                 prefix, switched, wdVars, ppVars>>

\* ------------------------------------------------------------------ service
\* The service goroutine back at its select, on the channels of the moment
AtSelect == [pc |-> "select", g |-> gen, msg |-> NoMsg]

\* simpleLogService.run: c.setState(running)
ActorSetRunning(i) ==
  /\ aborted = ""
  /\ actors[i].pc = "setRunning"
  /\ ctl.pc = "select"
  /\ totalState' = OrState(totalState, running)
  /\ actors' = [actors EXCEPT ![i] = AtSelect]
  /\ op' = [t \in Threads |->
              IF op[t].name = "Startup" /\ pc[t] = "waitAck"
              THEN [op[t] EXCEPT !.applied = TRUE] ELSE op[t]]
  /\ UNCHANGED <<ctl, attribute, chanVars, waiters, pc, calls, accepted, fileVars,
                 prefix, switched, aborted, wdVars, ppVars>>

\* simpleLogService.run, case <-c.stopService: flush() and return
ActorStop(i) ==
  /\ aborted = ""
  /\ actors[i].pc = "select"
  /\ stopClosed[actors[i].g]
  /\ SetFS(WriteAll(FS, FlushList(gen)))
  /\ Drained(gen, op)
  /\ actors' = [actors EXCEPT ![i].pc = "setStopped"]
  /\ UNCHANGED <<totalState, ctl, attribute, gen, capOf, stopClosed, waiters, calls,
                 prefix, switched, wdVars, ppVars>>

\* simpleLogService.run: the deferred c.setState(stopped); the goroutine ends
ActorSetStopped(i) ==
  /\ aborted = ""
  /\ actors[i].pc = "setStopped"
  /\ ctl.pc = "select"
  /\ totalState' = stopped
  /\ actors' = Remove(actors, i)
  /\ UNCHANGED <<ctl, attribute, chanVars, waiters, pc, op, calls, accepted, fileVars,
                 prefix, switched, aborted, wdVars, ppVars>>

\* simpleLogService.run, case logMsg = <-s.logData: the receive; the first
\* blocked sender's message moves into the buffer
ActorRecv(i) ==
  LET g == actors[i].g IN
  /\ aborted = ""
  /\ actors[i].pc = "select"
  /\ logData[g] # <<>>
  /\ actors' = [actors EXCEPT ![i].pc = "write", ![i].msg = Head(logData[g])]
  /\ IF sendq[g] = <<>>
     THEN /\ logData' = [logData EXCEPT ![g] = Tail(@)]
          /\ UNCHANGED <<sendq, accepted, pc, op>>
     ELSE /\ logData' = [logData EXCEPT ![g] =
                           Append(Tail(@), MsgOf(Head(sendq[g]), nmsg + 1))]
          /\ accepted' = Append(accepted, op[Head(sendq[g])].dest)
          /\ sendq' = [sendq EXCEPT ![g] = Tail(@)]
          /\ Return(Head(sendq[g]))
  /\ UNCHANGED <<totalState, ctl, attribute, gen, capOf, stopClosed, waiters, calls,
                 fileVars, prefix, switched, aborted, wdVars, ppVars>>

\* simpleLogService.run, case logMsg = <-s.logData: writeMessage(logMsg)
ActorWrite(i) ==
  /\ aborted = ""
  /\ actors[i].pc = "write"
  /\ SetFS(writeMessage(FS, actors[i].msg))
  /\ actors' = [actors EXCEPT ![i] = AtSelect]
  /\ UNCHANGED <<totalState, ctl, attribute, chanVars, waiters, pc, op, calls, accepted,
                 prefix, switched, wdVars, ppVars>>

\* simpleLogService.run, case <-flushBufferInterval.C
ActorTick(i) ==
  /\ aborted = ""
  /\ actors[i].pc = "select"
  /\ IF fileWriter = NoWriter
     THEN /\ aborted' = nilDeref
          /\ UNCHANGED fileVars
     ELSE SetFS(FlushWriter(FS))
  /\ actors' = [actors EXCEPT ![i] = AtSelect]
  /\ UNCHANGED <<totalState, ctl, attribute, chanVars, waiters, pc, op, calls, accepted,
                 prefix, switched, wdVars, ppVars>>

\* The callers' calls once the service has carried out the request of caller t
Applied(t) == IF pc[t] = "waitAck" THEN [op EXCEPT ![t].applied = TRUE] ELSE op

\* simpleLogService.run, case cfgMsg = <-s.serviceConfig with initlog
ActorInitlog(i) ==
  /\ aborted = ""
  /\ actors[i].pc = "select"
  /\ ctl.pc = "sendCfg" /\ ctl.g = actors[i].g /\ ctl.task = initlog
  /\ ctl' = CtlSelect
  /\ SetFS(setupLogFile(FS, ctl.data))
  /\ actors' = [actors EXCEPT ![i].pc = "cfgAck"]
  /\ op' = Applied(ctl.by)
  /\ switched' = NoSwitch
  /\ UNCHANGED <<wdVars, ppVars>>
  /\ UNCHANGED <<totalState, attribute, chanVars, waiters, pc, calls, accepted,
                 prefix>>

\* simpleLogService.run, case cfgMsg = <-s.serviceConfig with switchlog
ActorSwitchlog(i) ==
  LET flushed == WriteAll(FS, FlushList(gen)) IN
  /\ aborted = ""
  /\ actors[i].pc = "select"
  /\ ctl.pc = "sendCfg" /\ ctl.g = actors[i].g /\ ctl.task = switchlog
  /\ ctl' = CtlSelect
  /\ SetFS(IF flushed.err # "" THEN flushed ELSE changeLogFile(flushed, ctl.data))
  /\ Drained(gen, Applied(ctl.by))
  /\ actors' = [actors EXCEPT ![i].pc = "cfgAck"]
  /\ switched' = [ino |-> fileDesc'.ino, mark |-> Len(accepted')]
  /\ UNCHANGED <<wdVars, ppVars>>
  /\ UNCHANGED <<totalState, attribute, gen, capOf, stopClosed, waiters, calls,
                 prefix>>

\* SetPrefix: s.configService <- configMessage{setprefix, ...}, received by the
\* service, which stores the prefix of the destination
ActorSetprefix(t, i) ==
  /\ aborted = ""
  /\ pc[t] = "sendPrefix"
  /\ actors[i].pc = "select"
  /\ prefix' = IF op[t].dest = STDOUT
               THEN [prefix EXCEPT !.stdoutLogger = preprocessPrefix(op[t].pfx)]
               ELSE [prefix EXCEPT !.fileLogger = preprocessPrefix(op[t].pfx)]
  /\ actors' = [actors EXCEPT ![i].pc = "pfxAck"]
  /\ pc' = [pc EXCEPT ![t] = "waitPfxAck"]
  /\ op' = [op EXCEPT ![t].applied = TRUE]
  /\ UNCHANGED <<totalState, ctl, attribute, chanVars, waiters, calls, accepted,
                 fileVars, switched, aborted, wdVars, ppVars>>

\* SetPrefix: <-s.configServiceResponse
PrefixReturn(t, i) ==
  /\ aborted = ""
  /\ pc[t] = "waitPfxAck"
  /\ actors[i].pc = "pfxAck"
  /\ actors' = [actors EXCEPT ![i] = AtSelect]
  /\ Return(t)
  /\ UNCHANGED <<totalState, ctl, attribute, chanVars, waiters, calls, accepted,
                 fileVars, prefix, switched, aborted, wdVars, ppVars>>

\* ----------------------------------------------- execServiceActionResponse
\* control.service: <-c.execServiceActionResponse, sent by the service after a
\* config task
AckFromActor(t, i) ==
  /\ aborted = ""
  /\ pc[t] = "waitAck"
  /\ actors[i].pc = "cfgAck"
  /\ actors' = [actors EXCEPT ![i] = AtSelect]
  /\ Return(t)
  /\ UNCHANGED <<totalState, ctl, attribute, chanVars, waiters, calls, accepted,
                 fileVars, prefix, switched, aborted, wdVars, ppVars>>

\* control.service: <-c.execServiceActionResponse, sent by a start or stop waiter
AckFromWaiter(t, i) ==
  /\ aborted = ""
  /\ pc[t] = "waitAck"
  /\ waiters[i].pc = "ack"
  /\ waiters' = Remove(waiters, i)
  /\ Return(t)
  /\ UNCHANGED <<totalState, ctl, attribute, chanVars, actors, calls, accepted,
                 fileVars, prefix, switched, aborted, wdVars, ppVars>>

\* ------------------------------------------------------------ specification
Next ==
  \/ \E t \in Threads : CallStartup(t)
  \/ \E t \in Threads : CallShutdown(t)
  \/ \E t \in Threads : CallInitLog(t)
  \/ \E t \in Threads : CallSwitchLog(t)
  \/ \E t \in Threads : CallSetPrefix(t)
  \/ \E t \in Threads : CallLog(t)
  \/ \E t \in Threads : CheckReturn(t)
  \/ \E t \in Threads : SetAttribut(t)
  \/ MapRace
  \/ \E t \in Threads : LogSend(t)
  \/ \E t \in Threads : CtlStart(t)
  \/ \E t \in Threads : CtlStop(t)
  \/ \E t \in Threads : CtlInitlog(t)
  \/ \E t \in Threads : CtlSwitchlog(t)
  \/ \E i \in 1..Len(waiters) : WaiterCheck(i)
  \/ \E i \in 1..Len(waiters) : WaiterCheckReturn(i)
  \/ \E i \in 1..Len(waiters) : WaiterCleanup(i)
  \/ \E i \in 1..Len(actors) : ActorSetRunning(i)
  \/ \E i \in 1..Len(actors) : ActorStop(i)
  \/ \E i \in 1..Len(actors) : ActorSetStopped(i)
  \/ \E i \in 1..Len(actors) : ActorRecv(i)
  \/ \E i \in 1..Len(actors) : ActorWrite(i)
  \/ \E i \in 1..Len(actors) : ActorTick(i)
  \/ \E i \in 1..Len(actors) : ActorInitlog(i)
  \/ \E i \in 1..Len(actors) : ActorSwitchlog(i)
  \/ \E t \in Threads, i \in 1..Len(actors) : ActorSetprefix(t, i)
  \/ \E t \in Threads, i \in 1..Len(actors) : PrefixReturn(t, i)
  \/ \E t \in Threads, i \in 1..Len(actors) : AckFromActor(t, i)
  \/ \E t \in Threads, i \in 1..Len(waiters) : AckFromWaiter(t, i)

Spec == Init /\ [][Next]_vars

\* The state in which two concurrent Startup calls have both passed the state
\* check and returned, so that two service goroutines sit in their loops, and
\* an InitLog of file "b" has been carried out and has returned.  Three calls
\* lead here; the call budget leaves two more
InitTwoServices ==
  /\ InitWatchdog
  /\ prefixCall = NoPrefixCall
  /\ totalState = running
  /\ ctl = CtlSelect
  /\ attribute = [logbuffer |-> 1, logfilename |-> "b", logarchive |-> FALSE,
                  appendlog |-> FALSE]
  /\ gen = 2
  /\ logData = <<<<>>, <<>>>>
  /\ capOf = <<1, 1>>
  /\ sendq = <<<<>>, <<>>>>
  /\ stopClosed = <<FALSE, FALSE>>
  /\ actors = <<AtSelect, AtSelect>>
  /\ waiters = <<>>
  /\ pc = [t \in Threads |-> "idle"]
  /\ op = [t \in Threads |-> NoOp]
  /\ calls = MaxCalls - 2
  /\ accepted = <<>>
  /\ stdout = <<>>
  /\ files = [n \in AllNames |-> IF n = "b" THEN 1 ELSE 0]
  /\ disk = <<<<>>>>
  /\ fileDesc = [name |-> "b", ino |-> 1]
  /\ fileWriter = NoWriter
  /\ prefix = [stdoutLogger |-> <<>>, fileLogger |-> <<>>]
  /\ carried = [stdout |-> <<>>, file |-> <<>>]
  /\ switched = NoSwitch
  /\ aborted = ""

\* The program from the state of two running service goroutines on
SpecTwoServices == InitTwoServices /\ [][Next]_vars

\* ------------------------------------------------- watchdog and heartbeats
\* The pending queries of case c lose it
Lapse(c) ==
  [q \in Queriers |->
     IF query[q].pc = "sent" /\ query[q].case = c
       THEN [query[q] EXCEPT !.case = ""]
       ELSE query[q]]

\* The clock advances by one quantum
Tick ==
  /\ now < MaxTime
  /\ now' = now + 1
  /\ life' = [life EXCEPT !.fresh = FALSE]
  /\ query' = Lapse("started")
  /\ UNCHANGED <<watch, serviceRunning, serviceRunningResponse, beat, svcVars, ppVars>>

\* The service goroutine holds a heartbeat in t and offers it to the watchdog
Beating == beat.pc \in {"initSend", "tickSend", "stopSend"}

\* The tick the ticker delivers after the one due at next was taken at now
NextTick(next) ==
  next + (((now - next) \div heartBeatInterval) + 1) * heartBeatInterval

\* Whether the watchdog answers that the service is not running
NotRunning(timeDiff_ns) ==
  timeDiff_ns = 0 \/ timeDiff_ns > max_service_response_delay

\* watchdog.run, case t = <-w.heartBeatMonitor: the rendezvous with the
\* service goroutine; the difference is taken against the clock at receipt
WatchBeat ==
  /\ watch.pc = "select"
  /\ Beating
  /\ watch' = [watch EXCEPT !.t = beat.t, !.timeDiff_ns = now - beat.t,
                            !.recorded = TRUE]
  /\ beat' = CASE beat.pc = "initSend" ->
                    [pc |-> "loop", t |-> 0, next |-> now + heartBeatInterval]
               [] beat.pc = "tickSend" -> [beat EXCEPT !.pc = "loop", !.t = 0]
               [] OTHER -> [pc |-> "confirm", t |-> 0, next |-> 0]
  /\ UNCHANGED <<now, serviceRunning, serviceRunningResponse, life, query,
                 svcVars, ppVars>>

\* watchdog.run, case <-w.serviceRunning: the answer is computed from
\* timeDiff_ns as the last heartbeat left it
WatchQuery ==
  /\ watch.pc = "select"
  /\ serviceRunning > 0
  /\ serviceRunning' = serviceRunning - 1
  /\ watch' = [watch EXCEPT !.pc = "respond",
                            !.ans = ~NotRunning(watch.timeDiff_ns)]
  /\ UNCHANGED <<now, serviceRunningResponse, beat, life, query, svcVars, ppVars>>

\* A watchdog that hands out its answer only while the service goroutine is
\* at its select
WatchRespondViaService ==
  /\ beat.pc = "loop"
  /\ watch.pc = "respond"
  /\ Len(serviceRunningResponse) < 1
  /\ serviceRunningResponse' = Append(serviceRunningResponse, watch.ans)
  /\ watch' = [watch EXCEPT !.pc = "select", !.ans = FALSE]
  /\ UNCHANGED <<now, serviceRunning, beat, life, query, svcVars, ppVars>>

\* watchdog.run, w.serviceRunningResponse <- ...: blocks while the buffer is full
WatchRespond ==
  /\ watch.pc = "respond"
  /\ Len(serviceRunningResponse) < 1
  /\ serviceRunningResponse' = Append(serviceRunningResponse, watch.ans)
  /\ watch' = [watch EXCEPT !.pc = "select", !.ans = FALSE]
  /\ UNCHANGED <<now, serviceRunning, beat, life, query, svcVars, ppVars>>

\* watchdog.checkService, w.serviceRunning <- signal{}
CheckServiceSend(q) ==
  /\ query[q].pc = "idle"
  /\ serviceRunning < 1
  /\ serviceRunning' = serviceRunning + 1
  /\ query' = [query EXCEPT ![q] =
                 [pc |-> "sent",
                  case |-> CASE life.pc = "running" /\ life.fresh -> "started"
                             [] life.pc = "stopped" -> "stopped"
                             [] OTHER -> "",
                  ans |-> FALSE]]
  /\ UNCHANGED <<now, watch, serviceRunningResponse, beat, life, svcVars, ppVars>>

\* watchdog.checkService, <-w.serviceRunningResponse and the return
CheckServiceReturn(q) ==
  /\ query[q].pc = "sent"
  /\ serviceRunningResponse # <<>>
  /\ serviceRunningResponse' = Tail(serviceRunningResponse)
  /\ query' = [query EXCEPT ![q].pc = "idle",
                            ![q].ans = Head(serviceRunningResponse)]
  /\ UNCHANGED <<now, watch, serviceRunning, beat, life, svcVars, ppVars>>

\* service.run, t := time.Now() before the first heartbeat
RunNow ==
  /\ beat.pc = "start"
  /\ beat' = [beat EXCEPT !.pc = "initSend", !.t = now]
  /\ UNCHANGED <<now, watch, serviceRunning, serviceRunningResponse, life,
                 query, svcVars, ppVars>>

\* service.run, case t = <-heartBeat.C: the ticker holds one tick, the
\* earliest that fell due since the last one was taken
RunTick ==
  /\ beat.pc = "loop"
  /\ now >= beat.next
  /\ beat' = [beat EXCEPT !.pc = "tickSend", !.t = beat.next,
                          !.next = NextTick(beat.next)]
  /\ UNCHANGED <<now, watch, serviceRunning, serviceRunningResponse, life,
                 query, svcVars, ppVars>>

\* service.run, case <-s.stop, up to the back-dated heartbeat
RunBackdate ==
  /\ beat.pc = "stopNow"
  /\ beat' = [beat EXCEPT !.pc = "stopSend", !.t = now - Hour]
  /\ UNCHANGED <<now, watch, serviceRunning, serviceRunningResponse, life,
                 query, svcVars, ppVars>>

\* start: spawns the service goroutine when there is none
StartService ==
  /\ life.pc = "stopped"
  /\ life.n < MaxStarts
  /\ beat.pc = "none"
  /\ life' = [life EXCEPT !.pc = "starting", !.n = life.n + 1]
  /\ beat' = [beat EXCEPT !.pc = "start"]
  /\ query' = Lapse("stopped")
  /\ UNCHANGED <<now, watch, serviceRunning, serviceRunningResponse, svcVars, ppVars>>

\* start returns once the service goroutine has delivered its first heartbeat
StartReturn ==
  /\ life.pc = "starting"
  /\ beat.pc \notin {"start", "initSend"}
  /\ life' = [life EXCEPT !.pc = "running", !.fresh = TRUE]
  /\ UNCHANGED <<now, watch, serviceRunning, serviceRunningResponse, beat,
                 query, svcVars, ppVars>>

\* stop, s.stop <- signal{}: the rendezvous with the service goroutine's select
StopService ==
  /\ life.pc = "running"
  /\ beat.pc = "loop"
  /\ life' = [life EXCEPT !.pc = "stopping", !.fresh = FALSE]
  /\ beat' = [beat EXCEPT !.pc = "stopNow"]
  /\ query' = Lapse("started")
  /\ UNCHANGED <<now, watch, serviceRunning, serviceRunningResponse, svcVars, ppVars>>

\* service.run, s.confirmed <- signal{} and return; stop returns with it
RunConfirm ==
  /\ beat.pc = "confirm"
  /\ life.pc = "stopping"
  /\ beat' = [beat EXCEPT !.pc = "none"]
  /\ life' = [life EXCEPT !.pc = "stopped"]
  /\ UNCHANGED <<now, watch, serviceRunning, serviceRunningResponse, query,
                 svcVars, ppVars>>

NextW ==
  \/ Tick
  \/ WatchBeat
  \/ WatchQuery
  \/ WatchRespond
  \/ \E q \in Queriers : CheckServiceSend(q)
  \/ \E q \in Queriers : CheckServiceReturn(q)
  \/ RunNow
  \/ RunTick
  \/ RunBackdate
  \/ StartService
  \/ StartReturn
  \/ StopService
  \/ RunConfirm

SpecW == Init /\ [][NextW]_vars

\* The watchdog goroutine and the queriers are scheduled: a select with a
\* ready case is run, and a receiver waiting on a channel is served in turn
\* (the wait queue of a channel is first in, first out). Nothing is assumed
\* of the service goroutine or of the threads that start and stop it.
FairW ==
  /\ WF_vars(WatchQuery)
  /\ WF_vars(WatchRespond)
  /\ \A q \in Queriers : SF_vars(CheckServiceReturn(q))

SpecWFair == SpecW /\ FairW

\* ------------------------------------------------ preprocessPrefix, alone
\* The prefixes handed to preprocessPrefix: up to MaxTokens pieces, each a
\* tag, a time symbol or plain text, one after the other; and the prefix of
\* TestSetPrefix
MaxTokens == 6
Tokens == {dateTimeTag, <<"d", "d">>, <<"y", "y", "y", "y">>, <<"T">>, <<"x">>}

RECURSIVE Flatten(_)
Flatten(pieces) ==
  IF pieces = <<>> THEN <<>> ELSE Head(pieces) \o Flatten(Tail(pieces))

testPrefix ==
  dateTimeTag
    \o <<"y", "y", "y", "y", "-", "m", "m", "-", "d", "d", " ",
         "H", "H", ":", "M", "I", ":", "S", "S", ".",
         "F", "F", "F", "F", "F", "F">>
    \o dateTimeTag
    \o <<" ", "[", "T", "e", "s", "t", "]", ":">>

PrefixInputs ==
  {Flatten(ts) : ts \in UNION {[1..n -> Tokens] : n \in 0..MaxTokens}}
    \cup {testPrefix}

InitP ==
  /\ InitWatchdog
  /\ InitService
  /\ prefixCall \in {[arg |-> p, result |-> <<>>, returned |-> FALSE] :
                       p \in PrefixInputs}

\* preprocessPrefix(prefix) is called and returns, or panics
CallPreprocessPrefix ==
  /\ ~prefixCall.returned
  /\ prefixCall' = [prefixCall EXCEPT !.result = preprocessPrefix(prefixCall.arg),
                                      !.returned = TRUE]
  /\ UNCHANGED <<svcVars, wdVars>>

NextP == CallPreprocessPrefix

SpecP == InitP /\ [][NextP]_vars

\* ------------------------------------------------------------------- claims
\* The lines on disk, in any file
OnDisk == UNION {Range(disk[k]) : k \in 1..Len(disk)}

ToStdout(d) == d \in {STDOUT, MULTI}
ToFile(d) == d \in {FILE, MULTI}

\* Caller t returns from the named API function in this step
Returns(t, name) ==
  /\ op[t].name = name
  /\ pc[t] \in {"waitAck", "waitPfxAck"}
  /\ pc'[t] = "idle"

\* The lines of a destination carry ascending message ids (0: the blank line)
RECURSIVE Ascending(_)
Ascending(seq) ==
  \/ Len(seq) < 2
  \/ /\ seq[1] = 0 \/ seq[2] = 0 \/ seq[1] < seq[2]
     /\ Ascending(IF seq[2] = 0 THEN <<seq[1]>> \o Tail(Tail(seq)) ELSE Tail(seq))

\* C1: when Shutdown returns, every message enqueued so far has been written to
\* each of its destinations and none is left in the mailbox.
C1_ShutdownLosesNothing ==
  [][\A t \in Threads :
       (Returns(t, "Shutdown") /\ op[t].applied) => \A id \in 1..Len(accepted') :
          /\ ToStdout(accepted'[id]) => id \in Range(stdout')
          /\ ToFile(accepted'[id]) =>
               id \in UNION {Range(disk'[k]) : k \in 1..Len(disk')}]_vars

\* C2: at every destination (stdout, each file, the file writer's buffer) the
\* lines appear in the order their messages were enqueued.
C2_FifoAtEveryDestination ==
  /\ Ascending(stdout)
  /\ \A k \in 1..Len(disk) :
       Ascending(IF fileWriter.ino = k THEN disk[k] \o fileWriter.buf ELSE disk[k])

\* C6: at most one service goroutine exists.
C6_AtMostOneActor == Len(actors) <= 1

\* C7: Startup returns only when the state holds the running bit.
C7_StartupReturnsRunning ==
  [][\A t \in Threads : Returns(t, "Startup") => op[t].applied]_vars

\* C8: Shutdown returns only when the service goroutine has ended, the mailbox
\* is empty, the file destination is flushed and closed, and the state is stopped.
C8_ShutdownReturnsStopped ==
  [][\A t \in Threads :
       Returns(t, "Shutdown") =>
         /\ op[t].applied
         /\ gen' = op[t].mark =>
              /\ totalState' = stopped
              /\ actors' = <<>>
              /\ fileDesc' = NoDesc /\ fileWriter' = NoWriter]_vars

\* C9: InitLog, SwitchLog and SetPrefix return only after the service has
\* applied the caller's own request.
C9_AckBelongsToCaller ==
  [][\A t \in Threads :
       (Returns(t, "InitLog") \/ Returns(t, "SwitchLog") \/ Returns(t, "SetPrefix"))
         => op[t].applied]_vars

\* The lines that went to file k, flushed or still in the writer's buffer
LinesOf(k) == IF fileWriter.ino = k THEN disk[k] \o fileWriter.buf ELSE disk[k]

\* C3: once switchlog has been applied, every FILE/MULTI message enqueued before
\* it is on disk in a file other than the new one, the new file holds only
\* messages enqueued after it, and no other file receives one of those.
C3_SwitchSeparatesFiles ==
  switched.ino # 0 =>
    /\ \A id \in 1..switched.mark : ToFile(accepted[id]) => id \in OnDisk
    /\ \A id \in Range(LinesOf(switched.ino)) : id = 0 \/ id > switched.mark
    /\ \A k \in 1..Len(disk) : k # switched.ino =>
         \A id \in Range(LinesOf(k)) : id <= switched.mark

\* Caller t, inside the named API function, receives the answer val of its
\* state check in this step
Checked(t, name, val) ==
  /\ op[t].name = name
  /\ pc[t] = "waitCheck" /\ ctl.pc = "respCheck" /\ ctl.val = val
  /\ pc'[t] # pc[t]

\* C4: Startup whose state check finds the service running panics with m002,
\* spawns no service goroutine, replaces no channel and leaves the state running.
C4_StartupWhileRunning ==
  [][\A t \in Threads :
       Checked(t, "Startup", TRUE) =>
         /\ pc'[t] = "panicked" /\ aborted' = m002
         /\ UNCHANGED <<actors, waiters, chanVars, totalState>>
         /\ HasState(totalState', running)]_vars

C4_Witness ==
  \E t \in Threads :
    /\ op[t].name = "Startup" /\ pc[t] = "panicked" /\ aborted = m002
    /\ Len(actors) = 1 /\ HasState(totalState, running)

\* C5: Log, InitLog, SwitchLog, SetPrefix and Shutdown whose state check finds the
\* service not running panic with m004 (Shutdown: m003); nothing is enqueued, no
\* config or stop request is sent and no state changes.
C5_CallsWhileNotRunning ==
  [][\A t \in Threads :
       \A name \in {"Log", "InitLog", "SwitchLog", "SetPrefix", "Shutdown"} :
         Checked(t, name, FALSE) =>
           /\ pc'[t] = "panicked"
           /\ aborted' = IF name = "Shutdown" THEN m003 ELSE m004
           /\ ctl' = CtlSelect
           /\ UNCHANGED <<totalState, attribute, chanVars, actors, waiters, accepted,
                          fileVars, prefix>>]_vars

\* a call refused after a completed Shutdown
C5_Witness ==
  \E t \in Threads :
    /\ op[t].name \in {"Log", "InitLog", "SwitchLog", "SetPrefix", "Shutdown"}
    /\ pc[t] = "panicked" /\ aborted \in {m003, m004}
    /\ totalState = stopped /\ actors = <<>> /\ waiters = <<>>

\* C10: no mailbox holds more messages than the buffer size it was made with, a
\* buffer size given to Startup; a caller that found the mailbox full leaves its
\* send only in a step in which the service receives from that mailbox.
C10_MailboxBounded ==
  /\ [](\A g \in 1..gen : Len(logData[g]) <= capOf[g] /\ capOf[g] \in BufSizes)
  /\ [][\A t \in Threads :
          (pc[t] = "blocked" /\ pc'[t] # "blocked") =>
             \E g \in 1..gen :
               /\ \E k \in 1..Len(sendq[g]) : sendq[g][k] = t
               /\ Len(logData[g]) = capOf[g]
               /\ \/ \E i \in 1..Len(actors) :
                       actors[i].pc = "select" /\ actors'[i].pc = "write"
                         /\ actors'[i].msg = Head(logData[g])
                  \/ logData'[g] = <<>>]_vars

C10_Witness ==
  \E t \in Threads : pc[t] = "blocked" /\ Len(logData[gen]) = capOf[gen]

\* How many lines of a destination carry message id
Count(seq, id) == Cardinality({k \in 1..Len(seq) : seq[k] = id})

RECURSIVE FileCount(_, _)
FileCount(k, id) == IF k = 0 THEN 0 ELSE Count(LinesOf(k), id) + FileCount(k - 1, id)

\* No message has a line at a destination it was not sent to, or two lines at
\* one destination, or (MULTI) a file line without its stdout line
C11_NeverTwiceNorElsewhere ==
  \A id \in 1..nmsg :
    /\ Count(stdout, id) <= (IF ToStdout(accepted[id]) THEN 1 ELSE 0)
    /\ FileCount(Len(disk), id) <= (IF ToFile(accepted[id]) THEN 1 ELSE 0)
    /\ (accepted[id] = MULTI /\ FileCount(Len(disk), id) = 1) => Count(stdout, id) = 1

\* C11: every accepted message has exactly one line at each of its destinations
\* and none elsewhere (MULTI: stdout before file), no message is written twice;
\* "has" is read once the service has terminated without a panic.
C11_OneLinePerDestination ==
  /\ C11_NeverTwiceNorElsewhere
  /\ (totalState = stopped /\ actors = <<>> /\ aborted = "") =>
       \A id \in 1..nmsg :
         /\ Count(stdout, id) = (IF ToStdout(accepted[id]) THEN 1 ELSE 0)
         /\ FileCount(Len(disk), id) = (IF ToFile(accepted[id]) THEN 1 ELSE 0)

\* Service goroutine i dispatches in this step: the message it received, or the
\* messages flush() takes from the mailbox on stop and on switchlog
Dispatches(i) ==
  /\ i <= Len(actors) /\ Len(actors') = Len(actors)
  /\ \/ actors[i].pc = "write" /\ actors'[i].pc # "write"
     \/ actors[i].pc = "select" /\ actors'[i].pc = "setStopped"
     \/ /\ actors[i].pc = "select" /\ actors'[i].pc = "cfgAck"
        /\ ctl.pc = "sendCfg" /\ ctl.task = switchlog

\* The messages dispatched in such a step
Dispatched(i) ==
  IF actors[i].pc = "write" THEN <<actors[i].msg>> ELSE FlushList(gen)

\* C12: a FILE or MULTI message dispatched while no file destination is
\* configured ends the process with "log file not initialized"; the step writes
\* nothing to any file and creates no file destination.
C12_FileWriteWithoutFile ==
  [][\A i \in 1..Len(actors) :
       (/\ Dispatches(i)
        /\ fileDesc = NoDesc
        /\ \E k \in 1..Len(Dispatched(i)) : ToFile(Dispatched(i)[k].dest)) =>
          /\ aborted' = m001
          /\ UNCHANGED <<files, disk, fileDesc, fileWriter>>]_vars

C12_Witness ==
  /\ aborted = m001 /\ fileDesc = NoDesc /\ fileWriter = NoWriter
  /\ \E id \in 1..nmsg : ToFile(accepted[id]) /\ FileCount(Len(disk), id) = 0

\* The service state as the API's checks see it
RUNNING == HasState(totalState, running)

\* C13: the state becomes RUNNING only by a service goroutine that a start
\* spawned and only from STOPPED, becomes STOPPED only by a service goroutine
\* that a stop has signalled; when Shutdown returns the state is STOPPED unless a
\* later start was handled, and a Startup that finds the state STOPPED goes on
\* to start the service.
C13_StartStopCycle ==
  [][/\ (~RUNNING /\ RUNNING') =>
          \E i \in 1..Len(actors) :
            actors[i].pc = "setRunning" /\ actors'[i].pc = "select"
     /\ (RUNNING /\ ~RUNNING') =>
          /\ totalState' = stopped
          /\ \E i \in 1..Len(actors) :
               /\ actors[i].pc = "setStopped" /\ stopClosed[actors[i].g]
               /\ actors' = Remove(actors, i)
     /\ \A t \in Threads :
          /\ Returns(t, "Shutdown") => (~RUNNING' \/ gen' # op[t].mark)
          /\ Checked(t, "Startup", FALSE) => pc'[t] = "setAttr"]_vars

\* control.run takes the switchlog request of caller t in this step
TakesSwitchlog(t) ==
  pc[t] = "sendAction" /\ op[t].name = "SwitchLog" /\ pc'[t] = "waitAck"

\* C14: SwitchLog(newName) with newName naming an existing file ends with "log
\* file already exists"; the file destination stays as it is, nothing is written
\* to any file and no switch request reaches the service.
C14_SwitchToExistingFile ==
  [][\A t \in Threads :
       (TakesSwitchlog(t) /\ files[op[t].fname] # 0) =>
          /\ aborted' = m006
          /\ UNCHANGED fileVars
          /\ ctl' = ctl]_vars

\* seq1 is an initial part of seq2
IsPrefix(seq1, seq2) ==
  Len(seq1) <= Len(seq2) /\ SubSeq(seq2, 1, Len(seq1)) = seq1

\* A service goroutine carries out a switchlog request in this step
Switches ==
  /\ ctl.pc = "sendCfg" /\ ctl.task = switchlog /\ ctl'.pc = "select"
  /\ aborted' = ""

\* A stop waiter that was not asked to archive cleans up in this step
CleansUpWithoutArchive ==
  /\ Len(waiters') = Len(waiters)
  /\ \E i \in 1..Len(waiters) :
       waiters[i].pc = "cleanup" /\ ~waiters[i].archive /\ waiters'[i].pc = "ack"

\* C15: the switch closes the current file without deleting or renaming it: every
\* name keeps its file, every file keeps its lines (the writer's buffer is
\* flushed into the old file), the new name exists and is the open one; the
\* cleanup of a Shutdown without archive leaves every name in place too.
C15_SwitchKeepsOldFile ==
  [][/\ Switches =>
          /\ \A n \in AllNames : n # ctl.data => files'[n] = files[n]
          /\ files'[ctl.data] # 0
          /\ fileDesc' = [name |-> ctl.data, ino |-> files'[ctl.data]]
          /\ fileWriter' = NoWriter
          /\ \A k \in 1..Len(disk) : IsPrefix(LinesOf(k), disk'[k])
     /\ CleansUpWithoutArchive =>
          /\ files' = files
          /\ \A k \in 1..Len(disk) : IsPrefix(LinesOf(k), disk'[k])]_vars

\* Startup, InitLog(f1), SwitchLog(f2) and Shutdown(false) are over: both names exist
C15_Witness ==
  /\ totalState = stopped /\ actors = <<>> /\ waiters = <<>> /\ aborted = ""
  /\ switched.ino # 0 /\ fileDesc = NoDesc
  /\ \A n \in FileNames : files[n] # 0
  /\ \A n \in AllNames \ FileNames : files[n] = 0

\* Querier q reads its answer in this step
Answered(q) == query[q].pc = "sent" /\ query'[q].pc = "idle"

\* C16: the service goroutine has delivered a heartbeat before it reaches its
\* select, and a query issued when start has just returned is answered alive
C16_AliveAfterStart ==
  [][/\ beat'.pc = "loop" => watch'.recorded
     /\ \A q \in Queriers :
          (Answered(q) /\ query[q].case = "started") => query'[q].ans]_vars

\* C17: stop returns only after the watchdog has taken the back-dated
\* heartbeat, and a query issued while the service is stopped (before the
\* first start, or after stop returned and before the next start) is answered
\* not alive
C17_NotAliveWhileStopped ==
  [][/\ (life.pc = "stopping" /\ life'.pc = "stopped")
          => watch.timeDiff_ns > max_service_response_delay
     /\ \A q \in Queriers :
          (Answered(q) /\ query[q].case = "stopped") => ~query'[q].ans]_vars

\* The watchdog computes the answer to a query in this step
Answers == watch.pc = "select" /\ watch'.pc = "respond"

\* C18: once a heartbeat is recorded, the watchdog answers not alive exactly
\* when the clock at the query is more than latency_factor intervals past the
\* timestamp of the last heartbeat
C18_NotAliveIffOverdue ==
  [][(Answers /\ watch.recorded)
       => (watch'.ans <=> ~(now - watch.t > max_service_response_delay))]_vars

\* C19: every query is answered, whatever the service goroutine does or has
\* ceased to do, and with several queriers at once each of them is answered
C19_EveryQueryAnswered ==
  \A q \in Queriers : (query[q].pc = "sent") ~> (query[q].pc = "idle")

\* Querier 1 has its answer to a query issued after the service goroutine
\* returned, while querier 2 is waiting for its own
C19_Witness ==
  /\ beat.pc = "none"
  /\ life.n > 0
  /\ query[1].pc = "idle"
  /\ query[1].case = "stopped"
  /\ query[2].pc = "sent"

\* The service stores the prefix of caller t's SetPrefix in this step
AppliesPrefix(t) == pc[t] = "sendPrefix" /\ pc'[t] = "waitPfxAck"

\* The lines formatted in this step carry the prefix pfx
NewLinesCarry(old, new, pfx) ==
  /\ IsPrefix(old, new)
  /\ \A k \in (Len(old) + 1)..Len(new) : new[k].pfx = pfx

\* C20: SetPrefix(dest, p) stores the resolved p as the prefix of dest and
\* leaves the prefix of the other destination, the mailbox and the file
\* destination as they are; no other step changes a stored prefix; and every
\* line formatted for a destination carries the prefix stored for it
C20_SetPrefixFrame ==
  [][/\ \A t \in Threads :
          AppliesPrefix(t) =>
            /\ prefix' = IF op[t].dest = STDOUT
                         THEN [prefix EXCEPT
                                 !.stdoutLogger = preprocessPrefix(op[t].pfx)]
                         ELSE [prefix EXCEPT
                                 !.fileLogger = preprocessPrefix(op[t].pfx)]
            /\ UNCHANGED <<logData, sendq, fileVars>>
     /\ (\A t \in Threads : ~AppliesPrefix(t)) => prefix' = prefix
     /\ NewLinesCarry(carried.stdout, carried'.stdout, prefix.stdoutLogger)
     /\ NewLinesCarry(carried.file, carried'.file, prefix.fileLogger)
     /\ Len(carried'.stdout) = Len(stdout')
     /\ \A k \in 1..Len(stdout') : carried'.stdout[k].id = stdout'[k]]_vars

\* SetPrefix(STDOUT, "<DT>yyyy<DT>:") has returned (no SetPrefix is under
\* way), the file prefix is still empty, and the last line written to stdout
\* carries "2006:"
C20_Witness ==
  /\ aborted = ""
  /\ \A t \in Threads : op[t].name # "SetPrefix"
  /\ prefix.stdoutLogger = <<"2", "0", "0", "6", ":">>
  /\ prefix.fileLogger = <<>>
  /\ carried.stdout # <<>>
  /\ carried.stdout[Len(carried.stdout)].pfx = <<"2", "0", "0", "6", ":">>

\* control.run takes the InitLog of caller t in this step
TakesInitlog(t) ==
  pc[t] = "sendAction" /\ op[t].name = "InitLog" /\ pc'[t] = "waitAck"

\* The service opens the log file of an initlog message in this step
OpensLog == ctl.pc = "sendCfg" /\ ctl.task = initlog /\ ctl'.pc = "select"

\* C21: InitLog(name, FALSE) removes the file of that name before it is
\* opened, InitLog(name, TRUE) removes nothing; the open creates an empty file
\* when there is none and keeps the content of one that exists; and no step
\* takes a line out of a file, so new lines come after the content kept
C21_InitLogAppendFlag ==
  [][/\ \A t \in Threads :
          TakesInitlog(t) =>
            /\ files' = IF op[t].flag THEN files
                        ELSE [files EXCEPT ![op[t].fname] = 0]
            /\ ctl'.data = op[t].fname
            /\ disk' = disk
     /\ OpensLog =>
          /\ fileDesc' = [name |-> ctl.data, ino |-> files'[ctl.data]]
          /\ files'[ctl.data] # 0
          /\ IF files[ctl.data] # 0
             THEN files' = files /\ disk' = disk
             ELSE disk'[files'[ctl.data]] = <<>>
     /\ \A k \in 1..Len(disk) : IsPrefix(disk[k], disk'[k])]_vars

\* The stop waiter i cleans up an open log file in this step and goes on
CleansUp(i) ==
  /\ i <= Len(waiters')
  /\ waiters[i].pc = "cleanup" /\ waiters'[i].pc = "ack"
  /\ fileDesc # NoDesc
  /\ aborted' = ""

\* The Shutdown the stop waiter i works for is still waiting for it
ShutdownOf(i) ==
  LET t == waiters[i].by IN
  op[t].name = "Shutdown" /\ pc[t] = "waitAck" /\ op[t].mark = waiters[i].g

\* C22: the cleanup of Shutdown(TRUE) leaves the closed file, with every line
\* written to it, under the archive name and nothing under the original name;
\* the cleanup of Shutdown(FALSE) leaves every name in place; a switch creates
\* no archive
C22_ArchiveOnShutdown ==
  [][/\ \A i \in 1..Len(waiters) :
          (CleansUp(i) /\ ShutdownOf(i)) =>
            /\ fileDesc' = NoDesc /\ fileWriter' = NoWriter
            /\ \A k \in 1..Len(disk) : disk'[k] = LinesOf(k)
            /\ IF op[waiters[i].by].flag
               THEN /\ files'[fileDesc.name] = 0
                    /\ files'[ArchiveName(fileDesc.name)] = fileDesc.ino
               ELSE files' = files
     /\ Switches => \A n \in AllNames \ FileNames : files'[n] = files[n]]_vars

\* The stop waiter i, asked to archive, finds no file under the name of the
\* log file it has closed: the rename fails in this step
RenameFails(i) ==
  /\ i <= Len(waiters')
  /\ waiters[i].pc = "cleanup" /\ waiters'[i].pc = "ack"
  /\ waiters[i].archive
  /\ fileDesc # NoDesc
  /\ files[fileDesc.name] = 0

\* C23: a rename that fails does not end the process: the Shutdown it belongs
\* to is still answered, and the rename is not tried again
C23_IoErrorReturned ==
  [][\A i \in 1..Len(waiters) :
       RenameFails(i) => (aborted' = "" /\ files' = files)]_vars

\* The number of blank-line markers among the lines of a file
MarkersIn(lines) == Cardinality({j \in 1..Len(lines) : lines[j] = 0})

\* A blank-line marker reaches some file in this step
WritesMarker ==
  \E k \in 1..Len(disk') :
    MarkersIn(disk'[k]) > (IF k <= Len(disk) THEN MarkersIn(disk[k]) ELSE 0)

\* C24: the blank-line marker is written by the step that carries out initlog,
\* and by no other step, so a session writes exactly one
C24_MarkerAtInitLog ==
  [][/\ WritesMarker => OpensLog
     /\ (OpensLog /\ aborted' = "") =>
          MarkersIn(disk'[fileDesc'.ino]) = 1 + MarkersIn(IF files[ctl.data] # 0 THEN disk[files[ctl.data]] ELSE <<>>)]_vars

\* The file k holds a line of a FILE or MULTI message, written or buffered
HoldsMessage(k) == \E j \in 1..Len(LinesOf(k)) : LinesOf(k)[j] # 0

\* C25: a file that has received no FILE or MULTI message has size 0; an open
\* by initlog or switchlog leaves a file under the name it opens; and a name
\* loses its file only to the removal of InitLog or to the rename of an
\* archiving stop, so a stop without archive leaves every file in place
C25_EmptyFileWithoutWrites ==
  [][/\ \A k \in 1..Len(disk) : ~HoldsMessage(k) => disk[k] = <<>>
     /\ ((OpensLog \/ Switches) /\ aborted' = "") =>
          /\ files'[fileDesc'.name] = fileDesc'.ino
          /\ fileDesc'.ino \in 1..Len(disk')
     /\ \A n \in AllNames :
          (files[n] # 0 /\ files'[n] # files[n]) =>
             \/ \E t \in Threads : TakesInitlog(t) /\ ctl'.data = n
             \/ \E i \in 1..Len(waiters) :
                  /\ CleansUp(i) /\ waiters[i].archive
                  /\ n \in {fileDesc.name, ArchiveName(fileDesc.name)}]_vars

\* Startup, InitLog(a), SwitchLog(b) and Shutdown(false) have returned without
\* any write: both files exist and are empty
C25_Witness ==
  /\ aborted = ""
  /\ totalState = stopped
  /\ \A t \in Threads : pc[t] = "idle"
  /\ fileDesc = NoDesc
  /\ Len(disk) = 2
  /\ {files["a"], files["b"]} = {1, 2}
  /\ disk[1] = <<>> /\ disk[2] = <<>>
  /\ accepted = <<>>

\* The pieces of str between its tags: the first, the third, ... lie outside
\* the tagged regions, the second, the fourth, ... are the regions' contents
RECURSIVE Split(_)
Split(str) ==
  LET i == Index(str, dateTimeTag) IN
  IF i = 0 THEN <<str>>
  ELSE <<SubSeq(str, 1, i - 1)>>
         \o Split(SubSeq(str, i + Len(dateTimeTag), Len(str)))

\* The pieces put together again, the content of each region resolved: its
\* time symbols replaced, every other character as it is
RECURSIVE Resolved(_, _)
Resolved(pieces, inside) ==
  IF pieces = <<>> THEN <<>>
  ELSE (IF inside THEN translate(Head(pieces)) ELSE Head(pieces))
         \o Resolved(Tail(pieces), ~inside)

\* The reference function: no tag or an odd number of tags, the prefix as it
\* is; otherwise the tags removed and the regions resolved
referencePrefix(pfx) ==
  LET pieces == Split(pfx) IN
  IF Len(pieces) % 2 = 0 \/ Len(pieces) = 1 THEN pfx
  ELSE Resolved(pieces, FALSE)

\* C26: the result of preprocessPrefix is that of the reference function
C26_EqualsReference ==
  prefixCall.returned => prefixCall.result = referencePrefix(prefixCall.arg)

\* As Resolved, with each region resolved the way preprocessPrefix resolves a
\* single region: trimmed of the characters of the tag, then translated
RECURSIVE ResolvedTrimmed(_, _)
ResolvedTrimmed(pieces, inside) ==
  IF pieces = <<>> THEN <<>>
  ELSE (IF inside THEN translate(Trim(Head(pieces), Range(dateTimeTag)))
        ELSE Head(pieces))
         \o ResolvedTrimmed(Tail(pieces), ~inside)

\* C27: preprocessPrefix returns for every prefix, and for a prefix with
\* tagged regions the result is the text around the regions, in place, with
\* each region resolved on its own
C27_EveryRegionResolved ==
  prefixCall.returned =>
    /\ prefixCall.result # sliceBoundsPanic
    /\ LET pieces == Split(prefixCall.arg) IN
       (Len(pieces) % 2 = 1 /\ Len(pieces) > 1) =>
          prefixCall.result = ResolvedTrimmed(pieces, FALSE)

\* control.run is blocked in the send on s.serviceConfig
ControllerSends == aborted = "" /\ ctl.pc = "sendCfg"

\* A service goroutine is in its loop: at its select, or on its way back to
\* it, where it reads s.serviceConfig anew
ReceiverComes ==
  \E i \in 1..Len(actors) : actors[i].pc \notin {"setRunning", "setStopped"}

\* C28: no state is reached in which the controller and the service
\* goroutines wait for each other: whenever the controller hands a config
\* message to the service, a service goroutine comes to receive it, so the
\* controller goes on to serve the calls that passed their state check
C28_NoWaitForever == ControllerSends => ReceiverComes

\* The waiter i of a stop, the service stopped, closes the log file in this step
StopCleansUp(i) ==
  /\ i <= Len(waiters')
  /\ waiters[i].kind = stop
  /\ waiters[i].pc = "cleanup" /\ waiters'[i].pc = "ack"

\* A Shutdown has had its stop signalled and has not returned
StopSignalled ==
  \E t \in Threads : op[t].name = "Shutdown" /\ pc[t] = "waitAck"

\* C29: a stop that has been signalled runs to its end: the clean-up after the
\* drain does not end the process, and the controller is not held up for good
\* while the Shutdown waits for its answer
C29_StopRunsToCompletion ==
  [][/\ \A i \in 1..Len(waiters) : StopCleansUp(i) => aborted' = ""
     /\ StopSignalled => (ControllerSends => ReceiverComes)]_vars

\* A goroutine has a state-set or a state-check request for control.run: a
\* service goroutine at c.setState, or a waiter at c.checkState
StateRequestPending ==
  \/ \E i \in 1..Len(actors) : actors[i].pc \in {"setRunning", "setStopped"}
  \/ \E i \in 1..Len(waiters) : waiters[i].pc = "check"

\* C30: control.run never waits for the service goroutine: whenever a state-set
\* or state-check request is pending, control.run is at its select or is
\* answering a check, not in a send to the service
C30_ControllerServesState ==
  (aborted = "" /\ StateRequestPending) => ctl.pc \in {"select", "respCheck"}

\* The service goroutine i is in its loop, where it uses the file handle and
\* the buffered writer
InLoop(i) == actors[i].pc \notin {"setRunning", "setStopped"}

\* C31: the file handle and the buffered writer are used by the service
\* goroutine alone while it runs: the stop waiter closes and releases them
\* only when no service goroutine is in its loop, and no step of a caller or
\* of control.run changes them
C31_FileOwnedByService ==
  [][/\ \A i \in 1..Len(waiters) :
          StopCleansUp(i) => \A j \in 1..Len(actors) : ~InLoop(j)
     /\ ((pc' # pc \/ ctl' # ctl) /\ actors' = actors /\ waiters' = waiters) =>
          (fileDesc' = fileDesc /\ fileWriter' = fileWriter)]_vars

\* control.run takes the service action of caller t in this step
TakesAction(t) == pc[t] = "sendAction" /\ pc'[t] = "waitAck"

\* The attributes hold what caller t has supplied with its call
OwnAttributes(t) ==
  IF op[t].name = "Startup" THEN attribute.logbuffer = op[t].buf
  ELSE IF op[t].name = "Shutdown" THEN attribute.logarchive = op[t].flag
  ELSE IF op[t].name = "InitLog"
       THEN attribute.appendlog = op[t].flag /\ attribute.logfilename = op[t].fname
  ELSE attribute.logfilename = op[t].fname

\* C32: control.run takes every service action with the attribute values its
\* own caller supplied
C32_OwnAttributeValues ==
  [][\A t \in Threads : TakesAction(t) => OwnAttributes(t)]_vars

\* C33: the state of control.run is exactly stopped or exactly running, so
\* exactly one of checkState(stopped) and checkState(running) is answered true
C33_ExactlyOneState ==
  /\ totalState \in {stopped, running}
  /\ HasState(totalState, stopped) # HasState(totalState, running)

\* A message is in a mailbox, or a producer is blocked in its send
MessagePending ==
  \E g \in 1..gen : logData[g] # <<>> \/ sendq[g] # <<>>

\* No stop has been signalled: the service stays running
NoStopSignalled == \A g \in 1..gen : ~stopClosed[g]

\* C34: while the service stays running, the messages in the mailbox and the
\* producers blocked on it are not left behind by a service goroutine that
\* ends in its flush tick: the tick leaves the goroutine in its loop
C34_MailboxServed ==
  (MessagePending /\ NoStopSignalled) => aborted # nilDeref

\* The service goroutine i takes the flush tick in this step
Ticks(i) ==
  /\ actors[i].pc = "select"
  /\ actors' = [actors EXCEPT ![i] = AtSelect]
  /\ pc' = pc /\ ctl' = ctl /\ waiters' = waiters /\ prefix' = prefix
  /\ vars' # vars
  /\ aborted' \in {"", nilDeref}

\* C35: a flush tick moves the bytes of the writer's buffer to the file, in
\* their order, and leaves the buffer empty; with an empty buffer or without
\* a file destination it changes nothing and does not fail; it touches
\* neither the mailbox nor stdout
C35_FlushTick ==
  [][\A i \in 1..Len(actors) :
       Ticks(i) =>
         /\ aborted' = ""
         /\ fileWriter'.buf = <<>>
         /\ \A k \in 1..Len(disk) : disk'[k] = LinesOf(k)
         /\ Len(disk') = Len(disk)
         /\ UNCHANGED <<logData, sendq, accepted, stdout, files, fileDesc>>
         /\ fileWriter'.ino = fileWriter.ino]_vars

\* The stop waiter i hands its answer to a caller in this step: stop is complete
StopCompletes(i) ==
  /\ waiters[i].kind = stop /\ waiters[i].pc = "ack"
  /\ waiters' = Remove(waiters, i)

\* C36: the clean-up of a stop leaves no file handle and no buffered writer,
\* none exists when the stop is complete, and an initlog that finds no file
\* destination is carried out
C36_NoFileAfterStop ==
  [][/\ \A i \in 1..Len(waiters) :
          /\ (StopCleansUp(i) /\ aborted' = "") =>
                (fileDesc' = NoDesc /\ fileWriter' = NoWriter)
          /\ StopCompletes(i) => (fileDesc = NoDesc /\ fileWriter = NoWriter)
     /\ (OpensLog /\ fileDesc = NoDesc) =>
          (aborted' = "" /\ fileDesc'.name = ctl.data /\ fileWriter' = NoWriter)]_vars

\* The threads and the waiters that have sent a state check and wait for the reply
AskingThreads == {t \in Threads : pc[t] = "waitCheck"}
AskingWaiters == {i \in 1..Len(waiters) : waiters[i].pc = "waitCheck"}

\* The state the waiter i asks for
Wanted(i) == IF waiters[i].kind = start THEN running ELSE stopped

Targets(md, d) == md = d \/ md = MULTI

\* The messages that wait to be written: in a mailbox, or received by a
\* service goroutine that has not written yet
Unwritten ==
  UNION {Range(logData[g]) : g \in 1..gen}
    \cup {actors[i].msg : i \in {j \in 1..Len(actors) : actors[j].pc = "write"}}

\* C38: when the service stores the prefix of a SetPrefix(dest, p), every
\* message for dest that was enqueued before SetPrefix was called has been
\* written, so none of them is formatted with p
C38_PrefixNotRetroactive ==
  [][\A t \in Threads :
       AppliesPrefix(t) =>
         \A m \in Unwritten : m.id <= op[t].mark => ~Targets(m.dest, op[t].dest)]_vars

\* The service goroutine i writes the MULTI message it has received
WritesMulti(i) ==
  /\ i <= Len(actors')
  /\ actors[i].pc = "write" /\ actors[i].msg.dest = MULTI
  /\ actors'[i].pc = "select"
  /\ aborted' = ""

====
